---- MODULE Spec2Model ----
(***************************************************************************)
(* Weather_Notification: the pipeline orchestrator (src/main.py), the      *)
(* transform stage (src/transform/processors.py), the alert conditions     *)
(* (src/alerts/conditions.py) and the notifier selection                   *)
(* (src/alerts/notifiers.py).                                              *)
(*                                                                         *)
(* Specifications:                                                         *)
(*   Spec           one run of run_pipeline, stage by stage;               *)
(*   SpecTransform  clean_data applied to a batch, and again to its own    *)
(*                  output;                                                *)
(*   SpecEnrich, SpecValidate, SpecCheck, SpecCheckAll, SpecNotifier       *)
(*                  enrich_data, validate_data, ThresholdCondition.check,  *)
(*                  check_all_conditions and get_notifier, each applied    *)
(*                  to one input;                                          *)
(*   SpecSend       one call of a notifier's send, for each channel.       *)
(*                                                                         *)
(* A DataFrame is [cols |-> set of column names, rows |-> sequence of      *)
(* rows], a row being a function from cols to values.  Measurements are    *)
(* integers (the thresholds of the code are all integral), a polars null   *)
(* is the value Null, a location name is a code.  The columns date and     *)
(* uv_index_clear_sky are carried through the pipeline untouched by any    *)
(* decision and are left out.                                              *)
(***************************************************************************)
EXTENDS Integers, Sequences, FiniteSets, TLC

VARIABLES
    \* ---- run_pipeline ----
    pc,                 \* position in run_pipeline
    dry_run,            \* the dry_run argument
    settings,           \* get_settings()
    client,             \* the OpenMeteoClient of the run: "none", "open", "closed"
    raw_data,           \* the local raw_data: the hourly rows of the response
    df,                 \* the local df
    is_valid, errors,   \* the result of validate_data
    records_processed, alerts_triggered, alert_results,
    notifier,           \* the local notifier: a channel name, or "none"
    trace,              \* the stages executed so far, in order
    calls,              \* the collaborator calls made so far, in order
    summaries,          \* the records emitted by log_execution_summary
    raised,             \* the stage whose exception reached the except clause
    ret,                \* the return value of run_pipeline, NoReturn while running
    \* ---- clean_data on its own ----
    tpc, tb, tc, tcc,
    \* ---- one function applied to one input ----
    fpc,                \* "input" before the call, "called" after, else "idle"
    fin,                \* the arguments
    fout                \* the outcome

pvars == <<pc, dry_run, settings, client, raw_data, df, is_valid, errors,
           records_processed, alerts_triggered, alert_results, notifier,
           trace, calls, summaries, raised, ret>>
fvars == <<fpc, fin, fout>>
tvars == <<tpc, tb, tc, tcc, fvars>>
vars == <<pvars, tvars>>

(***************************************************************************)
(* Bounds                                                                  *)
(***************************************************************************)
MaxRows == 2        \* rows of a fetched batch
MaxTRows == 3       \* rows of a batch handed to clean_data on its own
MaxERows == 1       \* rows of a batch handed to enrich_data on its own
MaxVRows == 2       \* rows of a batch handed to validate_data on its own
MaxCRows == 2       \* rows of a batch handed to a condition's check
MaxConds == 2       \* conditions handed to check_all_conditions
MaxResults == 3     \* results handed to a notifier's send

Null == -1000       \* a polars null; no measurement of the model has this value
NoReturn == -1      \* run_pipeline has not returned
Paris == 100        \* the location name "Paris", as a code

(***************************************************************************)
(* DataFrames                                                              *)
(***************************************************************************)
Range(s) == {s[i] : i \in 1..Len(s)}

DataFrame(cols, rows) == [cols |-> cols, rows |-> rows]

\* pl.DataFrame(): no columns, no rows
EmptyFrame == DataFrame({}, <<>>)

is_empty(d) == Len(d.rows) = 0

SeqsUpTo(S, n) == UNION {[1..k -> S] : k \in 0..n}

\* all orderings of the rows of a finite set
Orderings(S) ==
    {s \in [1..Cardinality(S) -> S] : \A i, j \in 1..Cardinality(S) : i # j => s[i] # s[j]}

\* df.with_row_index(): a column "index" numbering the rows from 0
with_row_index(d) ==
    DataFrame(d.cols \cup {"index"},
              [i \in 1..Len(d.rows) |->
                  [c \in d.cols \cup {"index"} |->
                      IF c = "index" THEN i - 1 ELSE d.rows[i][c]]])

\* the filter on temperature forgotten
filter_not_null_time_only(d, c) ==
    IF c = "time" THEN DataFrame(d.cols, SelectSeq(d.rows, LAMBDA r : r[c] # Null)) ELSE d

\* df.filter(pl.col(c).is_not_null())
filter_not_null(d, c) ==
    DataFrame(d.cols, SelectSeq(d.rows, LAMBDA r : r[c] # Null))

\* the Float64 columns of a batch
NumericCols == {"temperature", "precipitation", "uv_index"}

\* df.fill_null(strategy="zero")
fill_null_zero(d) ==
    DataFrame(d.cols,
              [i \in 1..Len(d.rows) |->
                  [c \in d.cols |->
                      IF c \in NumericCols /\ d.rows[i][c] = Null THEN 0 ELSE d.rows[i][c]]])

SameKey(r1, r2, subset) == \A c \in subset : r1[c] = r2[c]

\* df.unique(subset=...): keep="any" and maintain_order=False, so any one row
\* of each key may survive and the survivors come in any order
unique(d, subset) ==
    LET R == Range(d.rows)
        Keeps == {K \in SUBSET R :
                     /\ \A r \in R : \E k \in K : SameKey(r, k, subset)
                     /\ \A k1, k2 \in K : SameKey(k1, k2, subset) => k1 = k2}
    IN  {DataFrame(d.cols, s) : s \in UNION {Orderings(K) : K \in Keeps}}

\* the final sort dropped
sort_index_none(d) == d

\* df.sort("index", descending=False)
sort_index(d) ==
    DataFrame(d.cols,
              CHOOSE s \in Orderings(Range(d.rows)) :
                  \A i, j \in 1..Len(s) : i < j => s[i]["index"] <= s[j]["index"])

Returned(d) == [raised |-> FALSE, df |-> d]
Raises == [raised |-> TRUE, df |-> EmptyFrame]

\* the location left out of the key
clean_subset_time_only(d) == {"time"}

\* the columns clean_data de-duplicates on
clean_subset(d) == IF "location" \in d.cols THEN {"time", "location"} ELSE {"time"}

\* clean_data(df): the set of its possible outcomes.  with_row_index raises
\* DuplicateError when the frame already has a column "index"; pl.col("time")
\* and pl.col("temperature") raise ColumnNotFoundError when absent.
clean_data(d) ==
    IF is_empty(d) THEN {Returned(d)}
    ELSE IF "index" \in d.cols THEN {Raises}
    ELSE IF "time" \notin d.cols \/ "temperature" \notin d.cols THEN {Raises}
    ELSE LET f == fill_null_zero(
                     filter_not_null(filter_not_null(with_row_index(d), "time"),
                                     "temperature"))
         IN  {Returned(sort_index(u)) : u \in unique(f, clean_subset(f))}

(***************************************************************************)
(* enrich_data, validate_data                                              *)
(***************************************************************************)
\* comparisons of a polars expression: a null compares to null, which a
\* when() or a filter() treats as false
Gt(v, t) == v # Null /\ v > t
Ge(v, t) == v # Null /\ v >= t
Lt(v, t) == v # Null /\ v < t

\* the Hot boundary taken as >= 30
temp_category_ge(v) ==
    IF Ge(v, 30) THEN "Hot" ELSE IF Lt(v, 10) THEN "Cold" ELSE "Moderate"

temp_category(v) ==
    IF Gt(v, 30) THEN "Hot" ELSE IF Lt(v, 10) THEN "Cold" ELSE "Moderate"

precip_category(v) ==
    IF Gt(v, 10) THEN "Rainy" ELSE IF Gt(v, 0) THEN "Light_rain" ELSE "Dry"

uv_category(v) ==
    IF Ge(v, 11) THEN "Extreme"
    ELSE IF Ge(v, 8) THEN "Very High"
    ELSE IF Ge(v, 6) THEN "High"
    ELSE IF Ge(v, 3) THEN "Moderate"
    ELSE "Low"

CategoryCols == {"temp_category", "precip_category", "uv_category"}

\* enrich_data(df); pl.col raises ColumnNotFoundError on an absent column
enrich_data(d) ==
    IF is_empty(d) THEN Returned(d)
    ELSE IF ~(NumericCols \subseteq d.cols) THEN Raises
    ELSE Returned(DataFrame(d.cols \cup CategoryCols,
             [i \in 1..Len(d.rows) |->
                 [c \in d.cols \cup CategoryCols |->
                     CASE c = "temp_category"   -> temp_category(d.rows[i]["temperature"])
                       [] c = "precip_category" -> precip_category(d.rows[i]["precipitation"])
                       [] c = "uv_category"     -> uv_category(d.rows[i]["uv_index"])
                       [] OTHER                 -> d.rows[i][c]]]))

required_columns == <<"temperature", "precipitation", "uv_index">>

\* only the first missing column is named
missing_columns_first(d) ==
    LET m == SelectSeq(required_columns, LAMBDA c : c \notin d.cols)
    IN  IF m = <<>> THEN m ELSE <<Head(m)>>

\* missing = [col for col in required_columns if col not in df.columns]
missing_columns(d) == SelectSeq(required_columns, LAMBDA c : c \notin d.cols)

\* the checks chained with elif: the first violated one hides the others
validate_data_elif(d) ==
    IF is_empty(d)
    THEN [is_valid |-> FALSE, errors |-> <<"DataFrame is empty">>, missing |-> <<>>]
    ELSE IF missing_columns(d) # <<>>
    THEN [is_valid |-> FALSE, errors |-> <<"Missing required columns">>,
          missing |-> missing_columns(d)]
    ELSE LET errs ==
                 IF \E i \in 1..Len(d.rows) : Gt(d.rows[i]["temperature"], 60)
                 THEN <<"Invalid temperature values (> 60C)">>
                 ELSE IF \E i \in 1..Len(d.rows) : Lt(d.rows[i]["precipitation"], 0)
                 THEN <<"Negative precipitation values">>
                 ELSE IF \E i \in 1..Len(d.rows) : Lt(d.rows[i]["uv_index"], 0)
                 THEN <<"Negative UV index values">>
                 ELSE IF \E i \in 1..Len(d.rows) : Gt(d.rows[i]["uv_index"], 15)
                 THEN <<"InvalidUV index values > 15">>
                 ELSE <<>>
         IN  [is_valid |-> Len(errs) = 0, errors |-> errs, missing |-> <<>>]

\* validate_data(df) -> (is_valid, errors); missing is the list the
\* "Missing required columns: {missing}" message is formatted from
validate_data(d) ==
    IF is_empty(d)
    THEN [is_valid |-> FALSE, errors |-> <<"DataFrame is empty">>, missing |-> <<>>]
    ELSE IF missing_columns(d) # <<>>
    THEN [is_valid |-> FALSE, errors |-> <<"Missing required columns">>,
          missing |-> missing_columns(d)]
    ELSE LET e1 == IF \E i \in 1..Len(d.rows) : Gt(d.rows[i]["temperature"], 60)
                   THEN <<"Invalid temperature values (> 60C)">> ELSE <<>>
             e2 == IF \E i \in 1..Len(d.rows) : Lt(d.rows[i]["precipitation"], 0)
                   THEN <<"Negative precipitation values">> ELSE <<>>
             e3 == IF \E i \in 1..Len(d.rows) : Lt(d.rows[i]["uv_index"], 0)
                   THEN <<"Negative UV index values">> ELSE <<>>
             e4 == IF \E i \in 1..Len(d.rows) : Gt(d.rows[i]["uv_index"], 15)
                   THEN <<"InvalidUV index values > 15">> ELSE <<>>
             errs == e1 \o e2 \o e3 \o e4
         IN  [is_valid |-> Len(errs) = 0, errors |-> errs, missing |-> <<>>]

(***************************************************************************)
(* Alert conditions                                                        *)
(***************************************************************************)
\* Settings defaults
temp_max_threshold == 35
uv_threshold == 8
precipitation_threshold == 8

ThresholdCondition(name, column, threshold, comparison, severity) ==
    [name |-> name, column |-> column, threshold |-> threshold,
     comparison |-> comparison, severity |-> severity]

build_default_conditions ==
    << ThresholdCondition("High Temperature", "temperature", temp_max_threshold, "gt", "warning"),
       ThresholdCondition("UV Index", "uv_index", uv_threshold, "gt", "critical"),
       ThresholdCondition("Heavy Precipitation", "precipitation", precipitation_threshold, "gt", "warning") >>

\* df.select(pl.col(column).max()).item(): the largest non-null value, None
\* when the column has none
col_max(d, column) ==
    LET V == {d.rows[i][column] : i \in 1..Len(d.rows)} \ {Null}
    IN  IF V = {} THEN Null ELSE CHOOSE v \in V : \A w \in V : w <= v

comparison_map(comparison, v, t) ==
    CASE comparison = "gt"  -> v > t
      [] comparison = "gte" -> v >= t
      [] comparison = "lt"  -> v < t
      [] comparison = "lte" -> v <= t
      [] comparison = "eq"  -> v = t
      [] OTHER              -> FALSE

KnownComparisons == {"gt", "gte", "lt", "lte", "eq"}

\* the lambdas that order their operands: None > t, None >= t, None < t and
\* None <= t raise TypeError, None == t is False
OrderingComparisons == {"gt", "gte", "lt", "lte"}

\* ThresholdCondition.check raises TypeError when it orders None
check_raises(cond, d) ==
    /\ ~is_empty(d)
    /\ cond.column \in d.cols
    /\ col_max(d, cond.column) = Null
    /\ cond.comparison \in OrderingComparisons

\* the early return carrying the condition's own severity
check_own_severity(cond, d) ==
    IF is_empty(d) \/ cond.column \notin d.cols
    THEN [triggered |-> FALSE, condition_name |-> cond.name, severity |-> cond.severity,
          value |-> Null, threshold |-> Null]
    ELSE LET value == col_max(d, cond.column)
             triggered == comparison_map(cond.comparison, value, cond.threshold)
         IN  [triggered |-> triggered, condition_name |-> cond.name,
              severity |-> IF triggered THEN cond.severity ELSE "info",
              value |-> value, threshold |-> cond.threshold]

\* ThresholdCondition.check(df), where it returns
check(cond, d) ==
    IF is_empty(d) \/ cond.column \notin d.cols
    THEN [triggered |-> FALSE, condition_name |-> cond.name, severity |-> "info",
          value |-> Null, threshold |-> Null]
    ELSE LET value == col_max(d, cond.column)
             triggered == comparison_map(cond.comparison, value, cond.threshold)
         IN  [triggered |-> triggered, condition_name |-> cond.name,
              severity |-> IF triggered THEN cond.severity ELSE "info",
              value |-> value, threshold |-> cond.threshold]

\* condition.check(df) as a call: it raises or returns a result
call_check(cond, d) ==
    IF check_raises(cond, d) THEN [raised |-> TRUE]
    ELSE [raised |-> FALSE, result |-> check(cond, d)]

\* the loop left at the first triggered result
RECURSIVE check_loop_break(_, _, _)
check_loop_break(d, conditions, results) ==
    IF conditions = <<>> THEN results
    ELSE LET result == check(Head(conditions), d)
         IN  IF result.triggered THEN Append(results, result)
             ELSE check_loop_break(d, Tail(conditions), Append(results, result))

\* for condition in conditions: results.append(condition.check(df))
RECURSIVE check_loop(_, _, _)
check_loop(d, conditions, results) ==
    IF conditions = <<>> THEN results
    ELSE check_loop(d, Tail(conditions), Append(results, check(Head(conditions), d)))

\* check_all_conditions(df, conditions), where no check raises
check_all_conditions(d, conditions) == check_loop(d, conditions, <<>>)

\* check_all_conditions(df, conditions) as a call: the first check that
\* raises ends the loop and the exception leaves the function
call_check_all_conditions(d, conditions) ==
    IF \E i \in 1..Len(conditions) : check_raises(conditions[i], d)
    THEN [raised |-> TRUE]
    ELSE [raised |-> FALSE, results |-> check_all_conditions(d, conditions)]

Triggered(results) == SelectSeq(results, LAMBDA r : r.triggered)

(***************************************************************************)
(* Notifiers                                                               *)
(***************************************************************************)
Channels == {"Console", "Slack", "Discord", "Email", "Push"}

\* the Discord webhook tested before the Slack one
get_notifier_discord_first(s) ==
    IF s.discord_webhook_url THEN "Discord"
    ELSE IF s.slack_webhook_url THEN "Slack"
    ELSE IF s.email_enabled THEN "Email"
    ELSE IF s.push_notification_enabled THEN "Push"
    ELSE "Console"

get_notifier(s) ==
    IF s.slack_webhook_url THEN "Slack"
    ELSE IF s.discord_webhook_url THEN "Discord"
    ELSE IF s.email_enabled THEN "Email"
    ELSE IF s.push_notification_enabled THEN "Push"
    ELSE "Console"

\* Notifier.send(results, location, df), transport_ok telling whether the
\* channel's transport succeeds: nothing triggered returns True before any
\* transport call, the Console has no transport
send(channel, results, transport_ok) ==
    IF Len(Triggered(results)) = 0 THEN TRUE
    ELSE IF channel = "Console" THEN TRUE
    ELSE transport_ok

\* the parts of the state a specification does not use
NotRun == [raised |-> FALSE, df |-> DataFrame({"notrun"}, <<>>)]

PipelineIdle ==
    /\ pc = "idle" /\ dry_run = FALSE /\ settings = <<>> /\ client = "none"
    /\ raw_data = <<>>
    /\ df = EmptyFrame /\ is_valid = TRUE /\ errors = <<>>
    /\ records_processed = 0 /\ alerts_triggered = 0 /\ alert_results = <<>>
    /\ notifier = "none" /\ trace = <<>> /\ calls = <<>> /\ summaries = <<>>
    /\ raised = "none" /\ ret = NoReturn

FunctionIdle ==
    /\ fpc = "idle" /\ fin = <<>> /\ fout = <<>>

CleanIdle ==
    /\ tpc = "idle" /\ tb = EmptyFrame /\ tc = NotRun /\ tcc = NotRun

TransformIdle == CleanIdle /\ FunctionIdle

(***************************************************************************)
(* run_pipeline                                                            *)
(***************************************************************************)
Stages == <<"Fetch", "Clean", "Enrich", "Validate", "PersistRaw", "PersistProcessed",
            "Evaluate", "Dispatch", "ArchiveOld", "Summarize">>

\* Settings: the fields run_pipeline decides on; a URL is set or not
SettingsDomain ==
    [alert_enabled : BOOLEAN, slack_webhook_url : BOOLEAN, discord_webhook_url : BOOLEAN,
     email_enabled : BOOLEAN, push_notification_enabled : BOOLEAN]

\* the readings of one hour: a missing temperature, a calm hour, a hot and
\* wet one (above temp_max_threshold and precipitation_threshold), and a
\* temperature validate_data rejects
HourlyReadings ==
    { [temperature |-> Null, precipitation |-> 0, uv_index |-> 2],
      [temperature |-> 20,   precipitation |-> 0, uv_index |-> 2],
      [temperature |-> 40,   precipitation |-> 9, uv_index |-> 2],
      [temperature |-> 70,   precipitation |-> 0, uv_index |-> 2] }

\* the hourly rows a response can hold; time is the hour of the requested day
HourlyRows ==
    { [time |-> t, temperature |-> m.temperature, precipitation |-> m.precipitation,
       uv_index |-> m.uv_index] : t \in {1, 2}, m \in HourlyReadings }

Responses == SeqsUpTo(HourlyRows, MaxRows)

\* str.to_datetime().dt.strftime("%I:%M %p"): the time of day, the date dropped
strftime_IMp(t) == t % 24

\* parse_weather_response(raw_data, location_name, frequency="hourly")
parse_weather_response(data, location_name) ==
    DataFrame({"time", "temperature", "precipitation", "uv_index", "location"},
              [i \in 1..Len(data) |->
                  [time |-> strftime_IMp(data[i].time),
                   temperature |-> data[i].temperature,
                   precipitation |-> data[i].precipitation,
                   uv_index |-> data[i].uv_index,
                   location |-> location_name]])

Summary(status, records, alerts) ==
    [status |-> status, records_processed |-> records, alerts_triggered |-> alerts]

Call(op, channel) == [op |-> op, channel |-> channel]

\* success = notifier.send(...): the call with what it came back with,
\* "True", "False" or "raised"
Sent(channel, result) == [op |-> "send", channel |-> channel, result |-> result]

\* an exception leaves the try body from the given stage
Raise(stage) ==
    /\ raised' = stage
    /\ pc' = "except"

\* the gate on is_valid dropped
stage_after_validate_no_gate(valid, dry) ==
    IF dry THEN "evaluate" ELSE "persist_raw"

\* lines 62-68: the stage that follows validate_data
stage_after_validate(valid, dry) ==
    IF ~valid THEN "done" ELSE IF dry THEN "evaluate" ELSE "persist_raw"

\* the gate on alert_enabled dropped
stage_after_evaluate_no_gate(s, n, dry) ==
    IF n > 0 THEN "dispatch" ELSE IF dry THEN "summarize" ELSE "archive"

\* lines 86-99: the stage that follows check_all_conditions
stage_after_evaluate(s, n, dry) ==
    IF s.alert_enabled /\ n > 0 THEN "dispatch"
    ELSE IF dry THEN "summarize" ELSE "archive"

\* the dry-run override dropped
select_notifier_no_override(s, dry) == get_notifier(s)

\* lines 87-91: the notifier of the run
select_notifier(s, dry) == IF dry THEN "Console" ELSE get_notifier(s)

Init ==
    /\ TransformIdle
    /\ pc = "start"
    /\ dry_run \in BOOLEAN
    /\ settings \in SettingsDomain
    /\ client = "none"
    /\ raw_data = <<>>
    /\ df = EmptyFrame
    /\ is_valid = TRUE /\ errors = <<>>
    /\ records_processed = 0 /\ alerts_triggered = 0 /\ alert_results = <<>>
    /\ notifier = "none"
    /\ trace = <<>> /\ calls = <<>> /\ summaries = <<>>
    /\ raised = "none" /\ ret = NoReturn

\* with OpenMeteoClient() as client: __init__ and __enter__
OpenClient ==
    /\ pc = "start"
    /\ trace' = Append(trace, "Fetch")
    /\ \/ /\ client' = "open"
          /\ pc' = "fetch_daily"
          /\ UNCHANGED raised
       \/ /\ Raise("Fetch")
          /\ UNCHANGED client
    /\ UNCHANGED <<dry_run, settings, raw_data, df, is_valid, errors, records_processed,
                   alerts_triggered, alert_results, notifier, calls, summaries, ret, tvars>>

\* client.fetch_daily(...): a response, or an HTTP error
FetchDaily ==
    /\ pc = "fetch_daily"
    /\ pc' = "with_exit"
    /\ calls' = Append(calls, Call("fetch_daily", "none"))
    /\ \/ /\ raw_data' \in Responses
          /\ UNCHANGED raised
       \/ /\ raised' = "Fetch"
          /\ UNCHANGED raw_data
    /\ UNCHANGED <<dry_run, settings, client, df, is_valid, errors, records_processed,
                   alerts_triggered, alert_results, notifier, trace, summaries, ret, tvars>>

\* __exit__ closing only when the body left without an exception
ClientExit_leak ==
    /\ pc = "with_exit"
    /\ client' = IF raised # "none" THEN client ELSE "closed"
    /\ pc' = IF raised # "none" THEN "except" ELSE "parse"
    /\ UNCHANGED <<dry_run, settings, raw_data, df, is_valid, errors, records_processed,
                   alerts_triggered, alert_results, notifier, trace, calls, summaries,
                   raised, ret, tvars>>

\* OpenMeteoClient.__exit__: closes, and lets a pending exception through
ClientExit ==
    /\ pc = "with_exit"
    /\ client' = "closed"
    /\ pc' = IF raised # "none" THEN "except" ELSE "parse"
    /\ UNCHANGED <<dry_run, settings, raw_data, df, is_valid, errors, records_processed,
                   alerts_triggered, alert_results, notifier, trace, calls, summaries,
                   raised, ret, tvars>>

\* lines 50-55: parse the response; an empty batch returns 1
Parse ==
    /\ pc = "parse"
    /\ \/ /\ df' = parse_weather_response(raw_data, Paris)
          /\ IF is_empty(df') THEN pc' = "done" /\ ret' = 1
                              ELSE pc' = "clean" /\ UNCHANGED ret
          /\ UNCHANGED raised
       \/ /\ Raise("Fetch")
          /\ UNCHANGED <<df, ret>>
    /\ UNCHANGED <<dry_run, settings, client, raw_data, is_valid, errors, records_processed,
                   alerts_triggered, alert_results, notifier, trace, calls, summaries, tvars>>

\* df = clean_data(df); its print (processors.py line 32) fails with an OSError
\* when stdout is gone
Clean ==
    /\ pc = "clean"
    /\ trace' = Append(trace, "Clean")
    /\ \/ \E o \in clean_data(df) :
             IF o.raised THEN Raise("Clean") /\ UNCHANGED df
             ELSE df' = o.df /\ pc' = "enrich" /\ UNCHANGED raised
       \/ Raise("Clean") /\ UNCHANGED df
    /\ UNCHANGED <<dry_run, settings, client, raw_data, is_valid, errors, records_processed,
                   alerts_triggered, alert_results, notifier, calls, summaries, ret, tvars>>

\* lines 58-59: df = enrich_data(df), and a print that fails with an OSError
\* when stdout is gone
Enrich ==
    /\ pc = "enrich"
    /\ trace' = Append(trace, "Enrich")
    /\ \/ LET o == enrich_data(df)
          IN  IF o.raised THEN Raise("Enrich") /\ UNCHANGED df
              ELSE df' = o.df /\ pc' = "validate" /\ UNCHANGED raised
       \/ Raise("Enrich") /\ UNCHANGED df
    /\ UNCHANGED <<dry_run, settings, client, raw_data, is_valid, errors, records_processed,
                   alerts_triggered, alert_results, notifier, calls, summaries, ret, tvars>>

\* lines 61-66: validate_data and the gate
Validate ==
    /\ pc = "validate"
    /\ trace' = Append(trace, "Validate")
    /\ LET v == validate_data(df)
       IN  /\ is_valid' = v.is_valid
           /\ errors' = v.errors
           /\ pc' = stage_after_validate(v.is_valid, dry_run)
           /\ IF pc' = "done" THEN ret' = 1 /\ UNCHANGED records_processed
              ELSE records_processed' = Len(df.rows) /\ UNCHANGED ret
    /\ UNCHANGED <<dry_run, settings, client, raw_data, df, alerts_triggered, alert_results,
                   notifier, calls, summaries, raised, tvars>>

\* a failed write tried a second time
PersistRaw_retry ==
    /\ pc = "persist_raw"
    /\ trace' = Append(trace, "PersistRaw")
    /\ calls' = Append(calls, Call("save_raw", "none"))
    /\ \/ pc' = "persist_processed" /\ UNCHANGED raised
       \/ IF Len(calls) < 2 THEN pc' = "persist_raw" /\ UNCHANGED raised
                             ELSE Raise("PersistRaw")
    /\ UNCHANGED <<dry_run, settings, client, raw_data, df, is_valid, errors,
                   records_processed, alerts_triggered, alert_results, notifier,
                   summaries, ret, tvars>>

\* storage.save_raw(df, "weather_forecast"): writes, or fails with an OSError
PersistRaw ==
    /\ pc = "persist_raw"
    /\ trace' = Append(trace, "PersistRaw")
    /\ calls' = Append(calls, Call("save_raw", "none"))
    /\ \/ pc' = "persist_processed" /\ UNCHANGED raised
       \/ Raise("PersistRaw")
    /\ UNCHANGED <<dry_run, settings, client, raw_data, df, is_valid, errors,
                   records_processed, alerts_triggered, alert_results, notifier,
                   summaries, ret, tvars>>

\* storage.save_processed(df, "weather_processed")
PersistProcessed ==
    /\ pc = "persist_processed"
    /\ trace' = Append(trace, "PersistProcessed")
    /\ calls' = Append(calls, Call("save_processed", "none"))
    /\ \/ pc' = "evaluate" /\ UNCHANGED raised
       \/ Raise("PersistProcessed")
    /\ UNCHANGED <<dry_run, settings, client, raw_data, df, is_valid, errors,
                   records_processed, alerts_triggered, alert_results, notifier,
                   summaries, ret, tvars>>

\* lines 79-86: build the conditions, check them all, count the triggered
Evaluate ==
    /\ pc = "evaluate"
    /\ trace' = Append(trace, "Evaluate")
    /\ LET conditions == build_default_conditions
       IN  IF \E i \in 1..Len(conditions) : check_raises(conditions[i], df)
           THEN Raise("Evaluate") /\ UNCHANGED <<alert_results, alerts_triggered>>
           ELSE /\ alert_results' = check_all_conditions(df, conditions)
                /\ alerts_triggered' = Len(Triggered(alert_results'))
                /\ pc' = stage_after_evaluate(settings, alerts_triggered', dry_run)
                /\ UNCHANGED raised
    /\ UNCHANGED <<dry_run, settings, client, raw_data, df, is_valid, errors,
                   records_processed, notifier, calls, summaries, ret, tvars>>

\* a False result treated as an error of the run
Dispatch_abort ==
    /\ pc = "dispatch"
    /\ trace' = Append(trace, "Dispatch")
    /\ notifier' = select_notifier(settings, dry_run)
    /\ \/ \E transport_ok \in BOOLEAN :
             LET success == send(notifier', alert_results, transport_ok)
             IN  /\ calls' = Append(calls, Sent(notifier', IF success THEN "True" ELSE "False"))
                 /\ IF success
                    THEN pc' = (IF dry_run THEN "summarize" ELSE "archive") /\ UNCHANGED raised
                    ELSE Raise("Dispatch")
       \/ /\ calls' = Append(calls, Sent(notifier', "raised"))
          /\ Raise("Dispatch")
    /\ UNCHANGED <<dry_run, settings, client, raw_data, df, is_valid, errors,
                   records_processed, alerts_triggered, alert_results, summaries, ret, tvars>>

\* lines 87-95: pick the notifier and send; a False result only logs
Dispatch ==
    /\ pc = "dispatch"
    /\ trace' = Append(trace, "Dispatch")
    /\ notifier' = select_notifier(settings, dry_run)
    /\ \/ \E transport_ok \in BOOLEAN :
             \* success = notifier.send(...): either value goes on to line 99
             LET success == send(notifier', alert_results, transport_ok)
             IN  /\ calls' = Append(calls, Sent(notifier', IF success THEN "True" ELSE "False"))
                 /\ pc' = IF dry_run THEN "summarize" ELSE "archive"
                 /\ UNCHANGED raised
       \/ /\ calls' = Append(calls, Sent(notifier', "raised"))
          /\ Raise("Dispatch")
    /\ UNCHANGED <<dry_run, settings, client, raw_data, df, is_valid, errors,
                   records_processed, alerts_triggered, alert_results, summaries, ret, tvars>>

\* storage.archive_old(days=30)
ArchiveOld ==
    /\ pc = "archive"
    /\ trace' = Append(trace, "ArchiveOld")
    /\ calls' = Append(calls, Call("archive_old", "none"))
    /\ \/ pc' = "summarize" /\ UNCHANGED raised
       \/ Raise("ArchiveOld")
    /\ UNCHANGED <<dry_run, settings, client, raw_data, df, is_valid, errors,
                   records_processed, alerts_triggered, alert_results, notifier,
                   summaries, ret, tvars>>

\* the exit code 2 of the docstring returned when alerts were triggered
Summarize_exit2 ==
    /\ pc = "summarize"
    /\ trace' = Append(trace, "Summarize")
    /\ summaries' = Append(summaries,
                           Summary(IF alerts_triggered > 0 THEN "ALERTS" ELSE "SUCCESS",
                                   records_processed, alerts_triggered))
    /\ ret' = IF alerts_triggered > 0 THEN 2 ELSE 0
    /\ pc' = "done"
    /\ UNCHANGED <<dry_run, settings, client, raw_data, df, is_valid, errors,
                   records_processed, alerts_triggered, alert_results, notifier,
                   calls, raised, tvars>>

\* lines 104-115: the summary of a run that got through, and return 0
Summarize ==
    /\ pc = "summarize"
    /\ trace' = Append(trace, "Summarize")
    /\ summaries' = Append(summaries,
                           Summary(IF alerts_triggered > 0 THEN "ALERTS" ELSE "SUCCESS",
                                   records_processed, alerts_triggered))
    /\ ret' = 0
    /\ pc' = "done"
    /\ UNCHANGED <<dry_run, settings, client, raw_data, df, is_valid, errors,
                   records_processed, alerts_triggered, alert_results, notifier,
                   calls, raised, tvars>>

\* the handler returning 1 without a summary
Except_silent ==
    /\ pc = "except"
    /\ ret' = 1
    /\ pc' = "done"
    /\ UNCHANGED <<dry_run, settings, client, raw_data, df, is_valid, errors,
                   records_processed, alerts_triggered, alert_results, notifier,
                   trace, calls, summaries, raised, tvars>>

\* lines 117-127: except Exception
Except ==
    /\ pc = "except"
    /\ summaries' = Append(summaries, Summary("ERROR", records_processed, 0))
    /\ ret' = 1
    /\ pc' = "done"
    /\ UNCHANGED <<dry_run, settings, client, raw_data, df, is_valid, errors,
                   records_processed, alerts_triggered, alert_results, notifier,
                   trace, calls, raised, tvars>>

Next ==
    \/ OpenClient \/ FetchDaily \/ ClientExit \/ Parse
    \/ Clean \/ Enrich \/ Validate
    \/ PersistRaw \/ PersistProcessed
    \/ Evaluate \/ Dispatch \/ ArchiveOld
    \/ Summarize \/ Except

Spec == Init /\ [][Next]_vars

(***************************************************************************)
(* SpecTransform: clean_data on a batch, then on its own output            *)
(***************************************************************************)
\* the batches handed to clean_data: with all columns (two locations, so that
\* the key (time, location) differs from time), without a location column,
\* and without a time column
Lyon == 101         \* the location name "Lyon", as a code

TRowsFull ==
    [time : {Null, 1, 2}, temperature : {Null, 20}, precipitation : {Null, 5},
     uv_index : {2}, location : {Paris}]
    \cup [time : {1}, temperature : {20}, precipitation : {5}, uv_index : {2},
          location : {Lyon}]

TRowsNoLocation ==
    [time : {Null, 1, 2}, temperature : {Null, 20}, precipitation : {Null, 5},
     uv_index : {2}]

TRowsNoTime ==
    [temperature : {Null, 20}, precipitation : {Null, 5}, uv_index : {2},
     location : {Paris}]

TFrames(cols, rows, n) == {DataFrame(cols, s) : s \in SeqsUpTo(rows, n)}

TBatches(n) ==
    {EmptyFrame}
    \cup TFrames({"time", "temperature", "precipitation", "uv_index", "location"}, TRowsFull, n)
    \cup TFrames({"time", "temperature", "precipitation", "uv_index"}, TRowsNoLocation, n)
    \cup TFrames({"temperature", "precipitation", "uv_index", "location"}, TRowsNoTime, n)

InitTransform ==
    /\ PipelineIdle
    /\ FunctionIdle
    /\ tpc = "input"
    /\ tb \in TBatches(MaxTRows)
    /\ tc = NotRun
    /\ tcc = NotRun

\* cleaned = clean_data(b)
CleanOnce ==
    /\ tpc = "input"
    /\ tc' \in clean_data(tb)
    /\ tpc' = "cleaned"
    /\ UNCHANGED <<tb, tcc, pvars, fvars>>

\* clean_data(cleaned)
CleanTwice ==
    /\ tpc = "cleaned"
    /\ ~tc.raised
    /\ tcc' \in clean_data(tc.df)
    /\ tpc' = "recleaned"
    /\ UNCHANGED <<tb, tc, pvars, fvars>>

NextTransform == CleanOnce \/ CleanTwice

SpecTransform == InitTransform /\ [][NextTransform]_vars

(***************************************************************************)
(* SpecEnrich: enrich_data on a batch                                      *)
(***************************************************************************)
\* rows around every breakpoint of the three ladders, nulls included
ERows ==
    [time : {1}, temperature : {Null, 9, 10, 30, 31}, precipitation : {Null, 0, 10, 11},
     uv_index : {Null, 2, 3, 5, 6, 7, 8, 10, 11}]

EBatches(n) ==
    {DataFrame({"time", "temperature", "precipitation", "uv_index"}, s) :
        s \in SeqsUpTo(ERows, n)}

InitEnrich ==
    /\ PipelineIdle /\ CleanIdle
    /\ fpc = "input"
    /\ fin \in EBatches(MaxERows)
    /\ fout = <<>>

\* enriched = enrich_data(df)
EnrichCall ==
    /\ fpc = "input"
    /\ fout' = enrich_data(fin)
    /\ fpc' = "called"
    /\ UNCHANGED <<fin, pvars, tpc, tb, tc, tcc>>

NextEnrich == EnrichCall

SpecEnrich == InitEnrich /\ [][NextEnrich]_vars

(***************************************************************************)
(* SpecValidate: validate_data on a batch                                  *)
(***************************************************************************)
\* rows inside and outside every range, nulls included
VRowsFull ==
    [time : {1}, temperature : {Null, 20, 61}, precipitation : {Null, -1, 0},
     uv_index : {-1, 2, 16}]

\* the rows of a frame that holds only the columns cols
VRows(cols) == {[c \in cols |-> r[c]] : r \in VRowsFull}

\* frames holding time and any subset of the required columns
VBatches(n) ==
    UNION {{DataFrame(cols \cup {"time"}, s) : s \in SeqsUpTo(VRows(cols \cup {"time"}), n)} :
              cols \in SUBSET Range(required_columns)}

InitValidate ==
    /\ PipelineIdle /\ CleanIdle
    /\ fpc = "input"
    /\ fin \in VBatches(MaxVRows)
    /\ fout = <<>>

\* is_valid, errors = validate_data(df)
ValidateCall ==
    /\ fpc = "input"
    /\ fout' = validate_data(fin)
    /\ fpc' = "called"
    /\ UNCHANGED <<fin, pvars, tpc, tb, tc, tcc>>

NextValidate == ValidateCall

SpecValidate == InitValidate /\ [][NextValidate]_vars

(***************************************************************************)
(* SpecCheck: ThresholdCondition.check on a batch                          *)
(***************************************************************************)
\* frames with the column temp_min (null, below and above the thresholds),
\* frames without it, and frames without rows
CFrames(n) ==
    {DataFrame({"time", "temp_min"}, s) :
        s \in SeqsUpTo([time : {1}, temp_min : {Null, -15, 5}], n)}
    \cup {DataFrame({"time"}, s) : s \in SeqsUpTo([time : {1}], n)}
    \cup {EmptyFrame}

\* conditions on temp_min, the comparison "ne" being one the map lacks
CConditions ==
    {ThresholdCondition("Low Temp", "temp_min", t, c, sev) :
        t \in {-10, 5}, c \in KnownComparisons \cup {"ne"}, sev \in {"warning", "critical"}}

InitCheck ==
    /\ PipelineIdle /\ CleanIdle
    /\ fpc = "input"
    /\ fin \in [cond : CConditions, df : CFrames(MaxCRows)]
    /\ fout = <<>>

\* result = condition.check(df)
CheckCall ==
    /\ fpc = "input"
    /\ fout' = call_check(fin.cond, fin.df)
    /\ fpc' = "called"
    /\ UNCHANGED <<fin, pvars, tpc, tb, tc, tcc>>

NextCheck == CheckCall

SpecCheck == InitCheck /\ [][NextCheck]_vars

(***************************************************************************)
(* SpecCheckAll: check_all_conditions on a batch and a list of conditions  *)
(***************************************************************************)
CAFrames(n) ==
    {DataFrame({"temp_max", "temp_min"}, s) :
        s \in SeqsUpTo([temp_max : {Null, 25, 38}, temp_min : {-15}], n)}

\* conditions that trigger, do not trigger, or lack their column
CAConditions ==
    { ThresholdCondition("High Temp", "temp_max", 35, "gt", "warning"),
      ThresholdCondition("Low Temp", "temp_min", -10, "lt", "warning"),
      ThresholdCondition("Cool", "temp_max", 25, "lte", "critical"),
      ThresholdCondition("Missing", "nonexistent", 35, "gt", "warning") }

InitCheckAll ==
    /\ PipelineIdle /\ CleanIdle
    /\ fpc = "input"
    /\ fin \in [conditions : SeqsUpTo(CAConditions, MaxConds), df : CAFrames(MaxCRows)]
    /\ fout = <<>>

\* results = check_all_conditions(df, conditions)
CheckAllCall ==
    /\ fpc = "input"
    /\ fout' = call_check_all_conditions(fin.df, fin.conditions)
    /\ fpc' = "called"
    /\ UNCHANGED <<fin, pvars, tpc, tb, tc, tcc>>

NextCheckAll == CheckAllCall

SpecCheckAll == InitCheckAll /\ [][NextCheckAll]_vars

(***************************************************************************)
(* SpecNotifier: get_notifier on the settings                              *)
(***************************************************************************)
\* the settings of the notifiers: a URL, a password or a topic is set or not
NotifierSettings ==
    [alert_enabled : BOOLEAN, slack_webhook_url : BOOLEAN, discord_webhook_url : BOOLEAN,
     email_enabled : BOOLEAN, gmail_smtp_app_password : BOOLEAN,
     push_notification_enabled : BOOLEAN, push_notification_topic : BOOLEAN]

InitNotifier ==
    /\ PipelineIdle /\ CleanIdle
    /\ fpc = "input"
    /\ fin \in NotifierSettings
    /\ fout = <<>>

\* notifier = get_notifier(settings)
GetNotifierCall ==
    /\ fpc = "input"
    /\ fout' = get_notifier(fin)
    /\ fpc' = "called"
    /\ UNCHANGED <<fin, pvars, tpc, tb, tc, tcc>>

NextNotifier == GetNotifierCall

SpecNotifier == InitNotifier /\ [][NextNotifier]_vars

(***************************************************************************)
(* SpecSend: Notifier.send of each channel, transport call by transport    *)
(* call.  fout.calls is the sequence of transport calls made so far (an    *)
(* HTTP post or an SMTP session), each with the results its message        *)
(* carries and whether the transport succeeded; fout.todo is what the      *)
(* loop of PushNotifier.send has still to go through.                      *)
(***************************************************************************)
\* results of the default conditions, triggered and not
SResults ==
    { [triggered |-> TRUE,  condition_name |-> "UV Index", severity |-> "critical",
       value |-> 9, threshold |-> 8],
      [triggered |-> TRUE,  condition_name |-> "High Temperature", severity |-> "warning",
       value |-> 40, threshold |-> 35],
      [triggered |-> FALSE, condition_name |-> "Heavy Precipitation", severity |-> "info",
       value |-> 0, threshold |-> 8],
      [triggered |-> FALSE, condition_name |-> "UV Index", severity |-> "info",
       value |-> 2, threshold |-> 8] }

Transport(carries, ok) == [carries |-> carries, ok |-> ok]

InitSend ==
    /\ PipelineIdle /\ CleanIdle
    /\ fpc = "input"
    /\ fin \in [channel : Channels, results : SeqsUpTo(SResults, MaxResults)]
    /\ fout = <<>>

\* a webhook posted although nothing triggered
SendNothing_post ==
    /\ fpc = "input"
    /\ Triggered(fin.results) = <<>>
    /\ \E ok \in BOOLEAN :
           fout' = [ret |-> ok, calls |-> <<Transport(<<>>, ok)>>, todo |-> <<>>]
    /\ fpc' = "returned"
    /\ UNCHANGED <<fin, pvars, tpc, tb, tc, tcc>>

\* every channel: if not triggered: return True
SendNothing ==
    /\ fpc = "input"
    /\ Triggered(fin.results) = <<>>
    /\ fout' = [ret |-> TRUE, calls |-> <<>>, todo |-> <<>>]
    /\ fpc' = "returned"
    /\ UNCHANGED <<fin, pvars, tpc, tb, tc, tcc>>

\* ConsoleNotifier.send: the triggered results are logged
ConsoleSend ==
    /\ fpc = "input"
    /\ fin.channel = "Console"
    /\ Triggered(fin.results) # <<>>
    /\ fout' = [ret |-> TRUE, calls |-> <<>>, todo |-> <<>>]
    /\ fpc' = "returned"
    /\ UNCHANGED <<fin, pvars, tpc, tb, tc, tcc>>

\* SlackNotifier.send, DiscordNotifier.send: one post carrying every
\* triggered result; an httpx.HTTPError returns False
WebhookSend ==
    /\ fpc = "input"
    /\ fin.channel \in {"Slack", "Discord"}
    /\ Triggered(fin.results) # <<>>
    /\ \E ok \in BOOLEAN :
           fout' = [ret |-> ok, calls |-> <<Transport(Triggered(fin.results), ok)>>,
                    todo |-> <<>>]
    /\ fpc' = "returned"
    /\ UNCHANGED <<fin, pvars, tpc, tb, tc, tcc>>

\* EmailNotifier.send: one SMTP session; any exception returns False
EmailSend ==
    /\ fpc = "input"
    /\ fin.channel = "Email"
    /\ Triggered(fin.results) # <<>>
    /\ \E ok \in BOOLEAN :
           fout' = [ret |-> ok, calls |-> <<Transport(Triggered(fin.results), ok)>>,
                    todo |-> <<>>]
    /\ fpc' = "returned"
    /\ UNCHANGED <<fin, pvars, tpc, tb, tc, tcc>>

\* PushNotifier.send, lines 212-220: the loop starts on the triggered results
PushBegin ==
    /\ fpc = "input"
    /\ fin.channel = "Push"
    /\ Triggered(fin.results) # <<>>
    /\ fout' = [calls |-> <<>>, todo |-> Triggered(fin.results)]
    /\ fpc' = "pushing"
    /\ UNCHANGED <<fin, pvars, tpc, tb, tc, tcc>>

\* the loop going on to the next result after a failed post
PushPost_continue ==
    /\ fpc = "pushing"
    /\ fout.todo # <<>>
    /\ \E ok \in BOOLEAN :
           fout' = [calls |-> Append(fout.calls, Transport(<<Head(fout.todo)>>, ok)),
                    todo |-> Tail(fout.todo)]
    /\ fpc' = "pushing"
    /\ UNCHANGED <<fin, pvars, tpc, tb, tc, tcc>>

\* lines 220-261: one iteration, requests.post of the result's message; a
\* requests.RequestException returns False
PushPost ==
    /\ fpc = "pushing"
    /\ fout.todo # <<>>
    /\ \E ok \in BOOLEAN :
           LET posted == Append(fout.calls, Transport(<<Head(fout.todo)>>, ok))
           IN  IF ok
               THEN /\ fout' = [calls |-> posted, todo |-> Tail(fout.todo)]
                    /\ fpc' = "pushing"
               ELSE /\ fout' = [ret |-> FALSE, calls |-> posted, todo |-> Tail(fout.todo)]
                    /\ fpc' = "returned"
    /\ UNCHANGED <<fin, pvars, tpc, tb, tc, tcc>>

\* line 263: the loop is through, return True
PushDone ==
    /\ fpc = "pushing"
    /\ fout.todo = <<>>
    /\ fout' = [ret |-> TRUE, calls |-> fout.calls, todo |-> <<>>]
    /\ fpc' = "returned"
    /\ UNCHANGED <<fin, pvars, tpc, tb, tc, tcc>>

NextSend ==
    \/ SendNothing \/ ConsoleSend \/ WebhookSend \/ EmailSend
    \/ PushBegin \/ PushPost \/ PushDone

SpecSend == InitSend /\ [][NextSend]_vars

(***************************************************************************)
(* Claims on run_pipeline                                                  *)
(***************************************************************************)
StageRank(st) == CHOOSE i \in 1..Len(Stages) : Stages[i] = st

Executed(st) == st \in Range(trace)

CallsOf(ops) == SelectSeq(calls, LAMBDA c : c.op \in ops)

Running == pc \notin {"idle", "done"}

\* C1: the stages of a run execute in the order Fetch, Clean, Enrich, Validate,
\* Persist-raw, Persist-processed, Evaluate, Dispatch, Archive-old, Summarize
\* (each executed stage after every stage executed before it), and none is
\* executed twice.
C1_StageOrder ==
    \A i \in 1..Len(trace) - 1 : StageRank(trace[i]) < StageRank(trace[i + 1])

\* a run that executed all ten stages
C1_Witness == pc = "done" /\ trace = Stages

\* C2: every run that has returned has emitted exactly one execution summary.
C2_OneSummary == pc = "done" => Len(summaries) = 1

\* C3: when validate_data reports the batch invalid, the run returns 1 with
\* Validate as its last stage: no save, no evaluation, no send and no archive;
\* the result is an error list, and no exception was raised.
C3_ValidationGate ==
    (Executed("Validate") /\ ~is_valid) =>
        /\ pc = "done" /\ ret = 1
        /\ trace[Len(trace)] = "Validate"
        /\ Len(CallsOf({"save_raw", "save_processed", "send", "archive_old"})) = 0
        /\ alert_results = <<>>
        /\ Len(errors) > 0
        /\ raised = "none"

\* a run stopped by a value-range error
C3_Witness ==
    /\ pc = "done" /\ Executed("Validate") /\ ~is_valid
    /\ errors = <<"Invalid temperature values (> 60C)">>

\* C4: an exception raised in a stage stops the run at that stage: no later
\* stage executes, and the run returns 1 after exactly one summary, of status
\* ERROR.
C4_ExceptionContained ==
    raised # "none" =>
        /\ trace[Len(trace)] = raised
        /\ pc \in {"with_exit", "except", "done"}
        /\ pc = "done" => /\ ret = 1
                          /\ Len(summaries) = 1
                          /\ summaries[1].status = "ERROR"

\* the notifier's send raised and the run has returned
C4_Witness == pc = "done" /\ raised = "Dispatch" /\ Len(CallsOf({"send"})) = 1

\* C5: in a dry run neither save_raw, save_processed nor archive_old is
\* called, send is called on the Console channel only, and a run that gets
\* through has evaluated the conditions.
C5_DryRun ==
    dry_run =>
        /\ Len(CallsOf({"save_raw", "save_processed", "archive_old"})) = 0
        /\ \A i \in 1..Len(calls) : calls[i].op = "send" => calls[i].channel = "Console"
        /\ (pc \in {"dispatch", "summarize"} \/ ret = 0) => Executed("Evaluate")

\* a dry run configured for another channel that has sent on the Console
C5_Witness ==
    /\ dry_run /\ pc = "done" /\ ret = 0
    /\ get_notifier(settings) # "Console"
    /\ Len(CallsOf({"send"})) = 1

C7_ClientClosed ==
    (Running \/ pc = "done") /\ pc \notin {"start", "fetch_daily", "with_exit"} =>
        \/ client = "closed"
        \/ client = "none" /\ raised = "Fetch" /\ calls = <<>>

\* fetch_daily raised, and the run has returned with the client closed
C7_Witness ==
    /\ pc = "done" /\ raised = "Fetch" /\ client = "closed"
    /\ Len(CallsOf({"fetch_daily"})) = 1

\* C8: send is called at most once in a run, hence on at most one channel, and
\* only when alerting is enabled and some condition result is triggered.
C8_DispatchGate ==
    LET sends == CallsOf({"send"})
    IN  /\ Len(sends) <= 1
        /\ Len(sends) = 1 =>
               /\ settings.alert_enabled
               /\ \E i \in 1..Len(alert_results) : alert_results[i].triggered

\* alerts were triggered with alerting disabled, and the run sent nothing
C8_Witness ==
    /\ pc = "done" /\ ret = 0
    /\ ~settings.alert_enabled /\ alerts_triggered > 0
    /\ Len(CallsOf({"send"})) = 0

C9_CleanIdempotent ==
    tpc = "recleaned" => (~tcc.raised /\ tcc.df = tc.df)

NonNullRow(r) == r["time"] # Null /\ r["temperature"] # Null

C11_ArrivalOrder ==
    (tpc # "input" /\ ~tc.raised /\ ~is_empty(tb)) =>
        LET out == tc.df.rows
        IN  /\ \A i \in 1..Len(out) - 1 : out[i]["index"] < out[i + 1]["index"]
            /\ \A i \in 1..Len(out) :
                   /\ out[i]["index"] + 1 \in 1..Len(tb.rows)
                   /\ \A c \in tb.cols :
                          LET v == tb.rows[out[i]["index"] + 1][c]
                          IN  \/ out[i][c] = v
                              \/ c \in NumericCols /\ v = Null /\ out[i][c] = 0

\* the second of three rows was removed as a duplicate, the first and the
\* third are kept in that order
C11_Witness ==
    /\ tpc = "cleaned" /\ ~tc.raised
    /\ Len(tb.rows) = 3 /\ NonNullRow(tb.rows[2])
    /\ Len(tc.df.rows) = 2
    /\ tc.df.rows[1]["index"] = 0 /\ tc.df.rows[2]["index"] = 2

\* C12: after clean_data no two rows share (time, location) when the batch has
\* a location column, or time when it has none, and every key of a non-null
\* input row has exactly one row in the output.
C12_UniqueKeys ==
    (tpc # "input" /\ ~tc.raised /\ ~is_empty(tb)) =>
        LET out == tc.df.rows
            key == IF "location" \in tb.cols THEN {"time", "location"} ELSE {"time"}
        IN  /\ \A i, j \in 1..Len(out) : SameKey(out[i], out[j], key) => i = j
            /\ \A j \in 1..Len(tb.rows) :
                   NonNullRow(tb.rows[j]) =>
                       Cardinality({i \in 1..Len(out) : SameKey(out[i], tb.rows[j], key)}) = 1

\* two rows of one time and location became one, a row of the same time at
\* another location is kept
C12_Witness ==
    /\ tpc = "cleaned" /\ ~tc.raised
    /\ "location" \in tb.cols
    /\ Len(tb.rows) = 3 /\ Len(tc.df.rows) = 2
    /\ tc.df.rows[1]["time"] = tc.df.rows[2]["time"]
    /\ tc.df.rows[1]["location"] # tc.df.rows[2]["location"]

(***************************************************************************)
(* Claims on enrich_data                                                   *)
(***************************************************************************)

C15_IndependentChecks ==
    (fpc = "called" /\ ~is_empty(fin)
        /\ {"temperature", "precipitation", "uv_index"} \subseteq fin.cols) =>
        LET order == << "Invalid temperature values (> 60C)", "Negative precipitation values",
                        "Negative UV index values", "InvalidUV index values > 15" >>
            Some(c, lo, hi) ==
                \E i \in 1..Len(fin.rows) :
                    fin.rows[i][c] # Null /\ fin.rows[i][c] > lo /\ fin.rows[i][c] < hi
            violated == << Some("temperature", 60, 1000), Some("precipitation", -999, 0),
                           Some("uv_index", -999, 0), Some("uv_index", 15, 1000) >>
        IN  /\ \A k \in 1..4 :
                   violated[k] <=> \E i \in 1..Len(fout.errors) : fout.errors[i] = order[k]
            /\ \A i \in 1..Len(fout.errors) - 1 :
                   \E a, b \in 1..4 :
                       a < b /\ fout.errors[i] = order[a] /\ fout.errors[i + 1] = order[b]
            /\ \A i \in 1..Len(fout.errors) : \E k \in 1..4 : fout.errors[i] = order[k]
            /\ fout.is_valid <=> fout.errors = <<>>

\* all four checks violated at once, by two rows
C15_Witness ==
    /\ fpc = "called" /\ Len(fin.rows) = 2
    /\ Len(fout.errors) = 4
    /\ ~fout.is_valid

(***************************************************************************)
(* Claims on ThresholdCondition.check and check_all_conditions             *)
(***************************************************************************)

\* C16: on a non-empty batch holding the condition's column, check returns
\* as value the maximum of the column for every comparison, triggered holds
\* iff the comparison is one of gt, gte, lt, lte, eq and holds between the
\* maximum and the threshold, and an unrecognized comparison gives
\* triggered = false and no exception.
C16_MaxSemantics ==
    (fpc = "called" /\ ~is_empty(fin.df) /\ fin.cond.column \in fin.df.cols) =>
        /\ ~fout.raised
        /\ LET col == {fin.df.rows[i][fin.cond.column] : i \in 1..Len(fin.df.rows)} \ {Null}
               v == fout.result.value
               t == fin.cond.threshold
               c == fin.cond.comparison
           IN  /\ col # {} => (v \in col /\ \A w \in col : w <= v)
               /\ col = {} => v = Null
               /\ fout.result.triggered <=>
                      \/ c = "gt" /\ v > t
                      \/ c = "gte" /\ v >= t
                      \/ c = "lt" /\ v < t
                      \/ c = "lte" /\ v <= t
                      \/ c = "eq" /\ v = t

\* C17: a condition with comparison lt is triggered when the column holds a
\* value below the threshold, and the result's value is the lowest value of
\* the column (temp_min = [-15, 5], threshold -10: triggered, value -15).
C17_LtLowestValue ==
    (fpc = "called" /\ ~is_empty(fin.df) /\ fin.cond.column \in fin.df.cols
        /\ fin.cond.comparison = "lt"
        /\ \E i \in 1..Len(fin.df.rows) :
               /\ fin.df.rows[i][fin.cond.column] # Null
               /\ fin.df.rows[i][fin.cond.column] < fin.cond.threshold) =>
        /\ ~fout.raised
        /\ fout.result.triggered
        /\ LET col == {fin.df.rows[i][fin.cond.column] : i \in 1..Len(fin.df.rows)} \ {Null}
           IN  fout.result.value \in col /\ \A w \in col : fout.result.value <= w

\* C18: on an empty batch, or a batch lacking the condition's column, check
\* raises nothing and returns triggered = false, severity info, value and
\* threshold unset, for every threshold and comparison.
C18_SoftFailure ==
    (fpc = "called" /\ (is_empty(fin.df) \/ fin.cond.column \notin fin.df.cols)) =>
        /\ ~fout.raised
        /\ ~fout.result.triggered
        /\ fout.result.severity = "info"
        /\ fout.result.value = Null
        /\ fout.result.threshold = Null

\* a critical lt condition on rows that lack its column
C18_Witness ==
    /\ fpc = "called" /\ Len(fin.df.rows) = 2 /\ "temp_min" \notin fin.df.cols
    /\ fin.cond.comparison = "lt" /\ fin.cond.severity = "critical"
    /\ ~fout.raised /\ ~fout.result.triggered

C20_NotifierPriority ==
    fpc = "called" =>
        /\ fout \in {"Slack", "Discord", "Email", "Push", "Console"}
        /\ fout = "Slack" <=> fin.slack_webhook_url
        /\ fout = "Discord" <=> (~fin.slack_webhook_url /\ fin.discord_webhook_url)
        /\ fout = "Email" <=>
               (~fin.slack_webhook_url /\ ~fin.discord_webhook_url /\ fin.email_enabled)
        /\ fout = "Push" <=>
               (~fin.slack_webhook_url /\ ~fin.discord_webhook_url /\ ~fin.email_enabled
                   /\ fin.push_notification_enabled)

\* everything configured at once: Slack wins
C20_Witness ==
    /\ fpc = "called"
    /\ fin.slack_webhook_url /\ fin.discord_webhook_url
    /\ fin.email_enabled /\ fin.push_notification_enabled
    /\ fout = "Slack"

(***************************************************************************)
(* Claims on Notifier.send                                                 *)
(***************************************************************************)

\* C21: PushNotifier.send posts one message per triggered result, in result
\* order, and stops at the first failed post: it then returns false, the
\* failed post is the last transport call, every post before it succeeded
\* and no later result is posted; it returns true only when the message of
\* every triggered result was posted successfully.
C21_PushStopsAtFirstFailure ==
    (fin.channel = "Push" /\ fpc \in {"pushing", "returned"}) =>
        LET triggered == SelectSeq(fin.results, LAMBDA r : r.triggered)
            posts == fout.calls
        IN  /\ Len(posts) <= Len(triggered)
            /\ \A k \in 1..Len(posts) : posts[k].carries = <<triggered[k]>>
            /\ \A k \in 1..Len(posts) - 1 : posts[k].ok
            /\ fpc = "pushing" => \A k \in 1..Len(posts) : posts[k].ok
            /\ fpc = "returned" =>
                   /\ ~fout.ret <=> (posts # <<>> /\ ~posts[Len(posts)].ok)
                   /\ fout.ret <=>
                          (Len(posts) = Len(triggered) /\ \A k \in 1..Len(posts) : posts[k].ok)

\* two triggered results, the first post failing: false, the second unsent
C21_Witness ==
    /\ fpc = "returned" /\ fin.channel = "Push"
    /\ Len(SelectSeq(fin.results, LAMBDA r : r.triggered)) = 2
    /\ Len(fout.calls) = 1 /\ ~fout.calls[1].ok
    /\ ~fout.ret

\* C22: for every channel, send on a result list with no triggered result
\* returns true and makes no transport call.
C22_NothingTriggeredNoTransport ==
    (fpc = "returned" /\ \A i \in 1..Len(fin.results) : ~fin.results[i].triggered) =>
        /\ fout.ret
        /\ fout.calls = <<>>

\* the Email channel handed two results, neither triggered
C22_Witness ==
    /\ fpc = "returned" /\ fin.channel = "Email"
    /\ Len(fin.results) = 2
    /\ ~fin.results[1].triggered /\ ~fin.results[2].triggered
    /\ fout.ret /\ fout.calls = <<>>

====
